---- MODULE Spec2Model ----
(***************************************************************************)
(* State-machine model of the 6502 emulator core of src/main.rs: the       *)
(* register file, the 64 KB memory, CPU::new, CPU::boot, CPU::step and the *)
(* host (main) that loads a memory image and then drives boot and step.    *)
(*                                                                         *)
(* The memory array is [u8; 65536], zero-initialised by CPU::new.  It is   *)
(* represented exactly by the function of its non-zero bytes: an address   *)
(* outside DOMAIN memory holds 0.                                          *)
(***************************************************************************)
EXTENDS Integers, Sequences, FiniteSets

VARIABLES a, x, y, flags, pc, sp, memory, image, phase, instructions, boots, aborted,
          trace

vars ==
    <<a, x, y, flags, pc, sp, memory, image, phase, instructions, boots, aborted, trace>>

-----------------------------------------------------------------------------
(* Widths *)

MemSize == 65536
ByteSize == 256

Addr == 0 .. (MemSize - 1)

-----------------------------------------------------------------------------
(* Opcode bytes tested by CPU::step *)

OP_INC_ZP  == 230
OP_JMP_ABS == 76
OP_JMP_IND == 108
OP_LDA_IMM == 169
OP_LDA_ZP  == 165
OP_LDA_ABS == 173
OP_PHA     == 72
OP_PLA     == 104

Implemented ==
    {OP_INC_ZP, OP_JMP_ABS, OP_JMP_IND, OP_LDA_IMM, OP_LDA_ZP, OP_LDA_ABS, OP_PHA, OP_PLA}

(* Fixed addresses *)
RESET_LO == 65532
RESET_HI == 65533
STACK_BASE == 256
SP_BOOT == 255

-----------------------------------------------------------------------------
(* Bit arithmetic on naturals, as the u8 / u16 / u32 operators compute it *)

RECURSIVE BitOr(_, _)
BitOr(m, n) ==
    IF m = 0 THEN n
    ELSE IF n = 0 THEN m
    ELSE (IF (m % 2 = 1) \/ (n % 2 = 1) THEN 1 ELSE 0) + 2 * BitOr(m \div 2, n \div 2)

RECURSIVE BitAnd(_, _)
BitAnd(m, n) ==
    IF m = 0 \/ n = 0 THEN 0
    ELSE (IF (m % 2 = 1) /\ (n % 2 = 1) THEN 1 ELSE 0) + 2 * BitAnd(m \div 2, n \div 2)

(* u16::from(b) << 8 *)
Shl8(b) == (b * 256) % MemSize

(* u8::wrapping_add(1), u8::wrapping_sub(1), u16::wrapping_add(1) *)
WrapAdd8(b) == (b + 1) % ByteSize
WrapSub8(b) == (b + ByteSize - 1) % ByteSize
WrapAdd16(w) == (w + 1) % MemSize

(* bit n of the status byte *)
Bit(v, n) == (v \div (2 ^ n)) % 2

-----------------------------------------------------------------------------
(* The memory array *)

Read(m, i) == IF i \in DOMAIN m THEN m[i] ELSE 0

Write(m, i, v) ==
    IF v = 0
    THEN [j \in (DOMAIN m) \ {i} |-> m[j]]
    ELSE [j \in (DOMAIN m) \cup {i} |-> IF j = i THEN v ELSE m[j]]

RECURSIVE WriteAll(_, _)
WriteAll(m, ws) ==
    IF ws = <<>> THEN m
    ELSE WriteAll(Write(m, Head(ws)[1], Head(ws)[2]), Tail(ws))

ZeroMemory == [j \in {} |-> 0]

-----------------------------------------------------------------------------
(* Bounds of the model *)

(* cap on main's instruction counter: steps taken in one run *)
MaxSteps == 3

(* cap on the number of boot calls in one run *)
MaxBoots == 1

(* number of past boot/step calls whose pre-state is remembered *)
TraceLen == 3

(* Images the host loads: a program at an origin (the reset vector points  *)
(* at it) and at most one data byte.                                       *)
Origins == {0, 512, 65535}

(* the implemented opcodes and two the step does not test: 0x85, 0x8D *)
ProgByte0 == Implemented \cup {133, 141}
ProgByte1 == {0, 104, 105, 169, 255}
ProgByte2 == {0, 2, 255}

LongPrograms ==
    { <<133, 169, 105, OP_LDA_ZP, 169>>,
      <<141, 169, 2, OP_LDA_ABS, 169, 2>>,
      <<OP_LDA_IMM, 105, OP_PHA, OP_PLA>>,
      <<OP_JMP_IND, 252, 255>> }

Programs ==
    {<<b0, b1, b2>> : b0 \in ProgByte0, b1 \in ProgByte1, b2 \in ProgByte2}
        \cup LongPrograms

DataWrites ==
    {<<>>} \cup {<< <<i, v>> >> : i \in {0, 169, 255, 510, 511, 681}, v \in {255}}

-----------------------------------------------------------------------------
(* CPU::step: fetch *)

Mask16 == 65535

Opcode(m, p) == Read(m, p)

(* mutant: the two operand bytes combined big-endian *)
OffsetBigEndian(b1, b2) == BitOr(b2, Shl8(b1))

(* mutant: the operand address without the & 0xFFFF mask *)
Bp1AddrUnmasked(p) == p + 1

Bp1Addr(p) == BitAnd(p + 1, Mask16)
Bp2Addr(p) == BitAnd(p + 2, Mask16)

Bp1(m, p) == Read(m, Bp1Addr(p))
Bp2(m, p) == Read(m, Bp2Addr(p))

Offset(b1, b2) == BitOr(b1, Shl8(b2))

OffsetPlusOne(off) == WrapAdd16(off)

IndirectAddr(m, off) == BitOr(Read(m, off), Shl8(Read(m, OffsetPlusOne(off))))

(* mutant: the stack page base mistyped as 0x1000 *)
FullStackAddressWrongPage(s) == BitOr(4096, s)

FullStackAddress(s) == BitOr(STACK_BASE, s)

-----------------------------------------------------------------------------
(* CPU::step: execute.  The tests on the local `opcode` are independent    *)
(* `if`s on one value, so at most one of them runs.                        *)

(* mutant: `advance` initialised to 2 instead of 1 *)
AdvanceDefaultTwo(op) ==
    CASE op = OP_INC_ZP  -> 2
      [] op = OP_JMP_ABS -> 0
      [] op = OP_JMP_IND -> 0
      [] op = OP_LDA_IMM -> 2
      [] op = OP_LDA_ZP  -> 2
      [] op = OP_LDA_ABS -> 2
      [] op = OP_PHA     -> 1
      [] op = OP_PLA     -> 1
      [] OTHER           -> 2

(* the value of `advance` when the program counter is advanced *)
Advance(op) ==
    CASE op = OP_INC_ZP  -> 2
      [] op = OP_JMP_ABS -> 0
      [] op = OP_JMP_IND -> 0
      [] op = OP_LDA_IMM -> 2
      [] op = OP_LDA_ZP  -> 2
      [] op = OP_LDA_ABS -> 2
      [] op = OP_PHA     -> 1
      [] op = OP_PLA     -> 1
      [] OTHER           -> 1

(* mutant: INC adds 1 without wrapping to a byte *)
ExecMemoryIncNoWrap(m, op, b1, acc, s) ==
    CASE op = OP_INC_ZP -> Write(m, b1, Read(m, b1) + 1)
      [] op = OP_PHA    -> Write(m, FullStackAddress(s), acc)
      [] OTHER          -> m

(* self.memory after the opcode's block *)
ExecMemory(m, op, b1, acc, s) ==
    CASE op = OP_INC_ZP -> Write(m, b1, WrapAdd8(Read(m, b1)))
      [] op = OP_PHA    -> Write(m, FullStackAddress(s), acc)
      [] OTHER          -> m

(* mutant: LDA immediate reads memory at its operand, as LDA zero page does *)
ExecAImmediateAsAddress(m, op, b1, off, acc, s) ==
    CASE op = OP_LDA_IMM -> Read(m, b1)
      [] op = OP_LDA_ZP  -> Read(m, b1)
      [] op = OP_LDA_ABS -> Read(m, off)
      [] op = OP_PLA     -> Read(m, FullStackAddress(s))
      [] OTHER           -> acc

(* mutant: LDA absolute ignores the operand's high byte *)
ExecAAbsoluteAsZeroPage(m, op, b1, off, acc, s) ==
    CASE op = OP_LDA_IMM -> b1
      [] op = OP_LDA_ZP  -> Read(m, b1)
      [] op = OP_LDA_ABS -> Read(m, b1)
      [] op = OP_PLA     -> Read(m, FullStackAddress(s))
      [] OTHER           -> acc

(* self.registers.a after the opcode's block *)
ExecA(m, op, b1, off, acc, s) ==
    CASE op = OP_LDA_IMM -> b1
      [] op = OP_LDA_ZP  -> Read(m, b1)
      [] op = OP_LDA_ABS -> Read(m, off)
      [] op = OP_PLA     -> Read(m, FullStackAddress(s))
      [] OTHER           -> acc

(* mutant: PHA moves the stack pointer up instead of down *)
ExecSpPushUp(op, s) ==
    CASE op = OP_PHA -> WrapAdd8(s)
      [] op = OP_PLA -> WrapAdd8(s)
      [] OTHER       -> s

(* self.registers.sp after the opcode's block *)
ExecSp(op, s) ==
    CASE op = OP_PHA -> WrapSub8(s)
      [] op = OP_PLA -> WrapAdd8(s)
      [] OTHER       -> s

(* mutant: JMP indirect jumps to the pointer itself *)
ExecPcIndirectAsAbsolute(op, p, off, ind) ==
    CASE op = OP_JMP_ABS -> off
      [] op = OP_JMP_IND -> off
      [] OTHER           -> p

(* self.registers.pc after the opcode's block, before the advance *)
ExecPc(op, p, off, ind) ==
    CASE op = OP_JMP_ABS -> off
      [] op = OP_JMP_IND -> ind
      [] OTHER           -> p

(* ((pc as u32 + advance as u32) & 0xFFFF) as u16 *)
AdvancePc(p, adv) == BitAnd(p + adv, Mask16)

(* mutant: flag_output initialised with the unused bit 5 set *)
FlagOutputUnusedSet == 2 ^ 5

(* flag_output is initialised to 0 and never assigned again *)
FlagOutput == 0

(* every index step applies to self.memory; an index outside the array panics *)
StepIndexes(m, p, s) ==
    LET op  == Opcode(m, p)
        b1  == Bp1(m, p)
        off == Offset(b1, Bp2(m, p))
    IN  {p, Bp1Addr(p), Bp2Addr(p), off, OffsetPlusOne(off)}
            \cup (IF op \in {OP_INC_ZP, OP_LDA_ZP} THEN {b1} ELSE {})
            \cup (IF op \in {OP_PHA, OP_PLA} THEN {FullStackAddress(s)} ELSE {})

-----------------------------------------------------------------------------
(* CPU::boot *)

(* mutant: the reset vector read big-endian *)
BootPcBigEndian(m) == BitOr(Read(m, RESET_HI), Shl8(Read(m, RESET_LO)))

BootPc(m) == BitOr(Read(m, RESET_LO), Shl8(Read(m, RESET_HI)))

-----------------------------------------------------------------------------
(* History of the calls made by the host: the state each call started from *)

Entry(op) ==
    [op |-> op, a |-> a, x |-> x, y |-> y, flags |-> flags, pc |-> pc, sp |-> sp,
     memory |-> memory]

Push(t, e) == IF Len(t) < TraceLen THEN Append(t, e) ELSE Append(Tail(t), e)

-----------------------------------------------------------------------------
(* The host's image: reset vector, program bytes from the origin, data *)

Lo(w) == w % ByteSize
Hi(w) == (w \div ByteSize) % ByteSize

ResetWrites(org) == << <<RESET_LO, Lo(org)>>, <<RESET_HI, Hi(org)>> >>

ProgWrites(org, prog) == [k \in 1 .. Len(prog) |-> <<(org + k - 1) % MemSize, prog[k]>>]

-----------------------------------------------------------------------------
Init ==
    /\ a = 0
    /\ x = 0
    /\ y = 0
    /\ flags = 0
    /\ pc = 0
    /\ sp = 0
    /\ memory = ZeroMemory
    /\ image = ZeroMemory
    /\ phase = "new"
    /\ instructions = 0
    /\ boots = 0
    /\ aborted = FALSE
    /\ trace = <<>>

(* main: the writes to mos.memory before boot *)
Load(org, prog, data) ==
    /\ phase = "new"
    /\ ~aborted
    /\ memory' = WriteAll(memory, ResetWrites(org) \o ProgWrites(org, prog) \o data)
    /\ image' = memory'
    /\ phase' = "loaded"
    /\ UNCHANGED <<a, x, y, flags, pc, sp, instructions, boots, aborted, trace>>

Boot ==
    /\ ~aborted
    /\ boots < MaxBoots
    /\ boots' = boots + 1
    /\ sp' = SP_BOOT
    /\ pc' = BootPc(memory)
    /\ phase' = "run"
    /\ trace' = Push(trace, Entry("boot"))
    /\ UNCHANGED <<a, x, y, flags, memory, image, instructions, aborted>>

(* CPU::step, on the registers and the memory *)
Exec ==
    LET op  == Opcode(memory, pc)
        b1  == Bp1(memory, pc)
        b2  == Bp2(memory, pc)
        off == Offset(b1, b2)
        ind == IndirectAddr(memory, off)
    IN  IF StepIndexes(memory, pc, sp) \subseteq Addr
        THEN /\ memory' = ExecMemory(memory, op, b1, a, sp)
             /\ a' = ExecA(memory, op, b1, off, a, sp)
             /\ sp' = ExecSp(op, sp)
             /\ pc' = AdvancePc(ExecPc(op, pc, off, ind), Advance(op))
             /\ flags' = FlagOutput
             /\ aborted' = FALSE
        ELSE /\ aborted' = TRUE
             /\ UNCHANGED <<a, sp, pc, flags, memory>>

Step ==
    /\ ~aborted
    /\ instructions < MaxSteps
    /\ Exec
    /\ phase' = "run"
    /\ instructions' = instructions + 1
    /\ trace' = Push(trace, Entry("step"))
    /\ UNCHANGED <<x, y, image, boots>>

Next ==
    \/ \E org \in Origins, prog \in Programs, data \in DataWrites : Load(org, prog, data)
    \/ Boot
    \/ Step

Spec == Init /\ [][Next]_vars

-----------------------------------------------------------------------------
(* main as written: the demo image, one boot, then step after step *)

DemoImage ==
    << <<65532, 0>>, <<65533, 2>>,
       <<1280, 2>>, <<1281, 2>>,
       <<512, 169>>, <<513, 105>>,
       <<514, 230>>, <<515, 0>>,
       <<516, 230>>, <<517, 0>>,
       <<518, 230>>, <<519, 1>>,
       <<520, 72>>,
       <<521, 165>>, <<522, 1>>,
       <<523, 76>>, <<524, 0>>, <<525, 3>>,
       <<768, 108>>, <<769, 0>>, <<770, 5>> >>

LoadDemo ==
    /\ phase = "new"
    /\ memory' = WriteAll(memory, DemoImage)
    /\ image' = memory'
    /\ phase' = "loaded"
    /\ UNCHANGED <<a, x, y, flags, pc, sp, instructions, boots, aborted, trace>>

DemoBoot ==
    /\ phase = "loaded"
    /\ Boot

DemoStep ==
    /\ phase = "run"
    /\ ~aborted
    /\ Exec
    /\ trace' = Push(trace, Entry("step"))
    /\ UNCHANGED <<x, y, image, phase, instructions, boots>>

NextDemo ==
    \/ LoadDemo
    \/ DemoBoot
    \/ DemoStep

(* main runs straight through: each of its statements is eventually executed *)
SpecDemo ==
    /\ Init
    /\ [][NextDemo]_vars
    /\ WF_vars(LoadDemo)
    /\ WF_vars(DemoBoot)
    /\ WF_vars(DemoStep)

-----------------------------------------------------------------------------
(* Vocabulary of the properties: the call that led to the current state,   *)
(* read from the state it started from.                                    *)

Called == Len(trace) > 0
Last == trace[Len(trace)]
Before == trace[Len(trace) - 1]

Stepped == Called /\ Last.op = "step"
Booted == Called /\ Last.op = "boot"

(* the byte k places after the opcode of the last step, addresses modulo 65536 *)
PreByte(k) == Read(Last.memory, (Last.pc + k) % 65536)
PreOpcode == PreByte(0)
PreOperand16 == PreByte(1) + 256 * PreByte(2)

ZeroFlag == Bit(flags, 1)
NegativeFlag == Bit(flags, 7)

-----------------------------------------------------------------------------
(* C1: one step() of an implemented non-jump opcode advances pc by the     *)
(* instruction's documented byte length modulo 65536 (INC zp 2, LDA # 2,   *)
(* LDA zp 2, LDA abs 3, PHA 1, PLA 1); one step() of JMP leaves pc at the   *)
(* jump target with no further advance (for JMP indirect the target's low  *)
(* byte is the byte at the pointer; its high byte is C7's subject).        *)
C1_PcAdvance ==
    (Stepped /\ ~aborted) =>
        /\ PreOpcode = 230 => pc = (Last.pc + 2) % 65536
        /\ PreOpcode = 169 => pc = (Last.pc + 2) % 65536
        /\ PreOpcode = 165 => pc = (Last.pc + 2) % 65536
        /\ PreOpcode = 173 => pc = (Last.pc + 3) % 65536
        /\ PreOpcode = 72  => pc = (Last.pc + 1) % 65536
        /\ PreOpcode = 104 => pc = (Last.pc + 1) % 65536
        /\ PreOpcode = 76  => pc = PreOperand16
        /\ PreOpcode = 108 => pc % 256 = Read(Last.memory, PreOperand16)

(* C2: boot() sets sp to 0xFF and pc to memory[0xFFFC] + 256 *             *)
(* memory[0xFFFD], and leaves a, x, y, flags and all memory unchanged.      *)
C2_Boot ==
    Booted =>
        /\ sp = 255
        /\ pc = Read(Last.memory, 65532) + 256 * Read(Last.memory, 65533)
        /\ a = Last.a /\ x = Last.x /\ y = Last.y /\ flags = Last.flags
        /\ memory = Last.memory

C2_Witness ==
    Booted /\ Read(memory, 65532) = 0 /\ Read(memory, 65533) = 2 /\ pc = 512 /\ Last.sp = 0

(* the scenario of C3: boot() then one step() on the LDA #$69 image *)
C3_Scenario ==
    /\ Len(trace) >= 2
    /\ Before.op = "boot"
    /\ Last.op = "step"
    /\ Read(Before.memory, 65532) = 0
    /\ Read(Before.memory, 65533) = 2
    /\ Read(Before.memory, 512) = 169
    /\ Read(Before.memory, 513) = 105

(* C3: reset vector 0x0200, memory[0x0200] = 0xA9, memory[0x0201] = 0x69:   *)
(* after boot() and exactly one step(), pc = 0x0202, a = 0x69, the zero     *)
(* flag and the negative flag are clear.                                    *)
C3_LdaImmediate ==
    C3_Scenario => (pc = 514 /\ a = 105 /\ ZeroFlag = 0 /\ NegativeFlag = 0)

C3_Witness == C3_Scenario /\ instructions = 1 /\ pc = 514 /\ a = 105

(* C4: after one step() executing LDA #$00 the zero flag is set, the        *)
(* negative flag is clear, and carry, overflow, interrupt-disable and       *)
(* decimal are as they were before the step.                                *)
C4_LdaZeroFlags ==
    (Stepped /\ PreOpcode = 169 /\ PreByte(1) = 0) =>
        /\ ZeroFlag = 1
        /\ NegativeFlag = 0
        /\ \A n \in {0, 2, 3, 6} : Bit(flags, n) = Bit(Last.flags, n)

(* C5: with INC zero page at pc, operand 0x00 and memory[0x0000] = 0xFF,    *)
(* after one step() memory[0x0000] = 0x00, the zero flag is set and the     *)
(* negative flag is clear.                                                  *)
C5_IncWrapFlags ==
    (Stepped /\ PreOpcode = 230 /\ PreByte(1) = 0 /\ Read(Last.memory, 0) = 255) =>
        (Read(memory, 0) = 0 /\ ZeroFlag = 1 /\ NegativeFlag = 0)

(* C6: PHA in one step() followed immediately by PLA in the next leaves a   *)
(* and sp equal to their values before the PHA.                             *)
C6_PhaPla ==
    ( /\ Len(trace) >= 2
      /\ Before.op = "step" /\ Read(Before.memory, Before.pc) = 72
      /\ Last.op = "step" /\ PreOpcode = 104 ) =>
        (a = Before.a /\ sp = Before.sp)

(* C7: indirect JMP whose pointer is 0xPPFF sets pc to memory[0xPPFF] +     *)
(* 256 * memory[0xPP00]: the high byte comes from the start of the same     *)
(* page, not from pointer + 1.                                              *)
C7_JmpIndirectPageWrap ==
    (Stepped /\ PreOpcode = 108 /\ PreByte(1) = 255) =>
        pc = Read(Last.memory, PreOperand16) + 256 * Read(Last.memory, PreOperand16 - 255)

(* C8: an opcode byte that is not implemented is a no-op: a, x, y, sp and   *)
(* all memory are unchanged, pc becomes (pc + 1) mod 65536 and the step     *)
(* does not abort.                                                          *)
C8_UnimplementedNop ==
    (Stepped /\ PreOpcode \notin {230, 76, 108, 169, 165, 173, 72, 104}) =>
        /\ ~aborted
        /\ a = Last.a /\ x = Last.x /\ y = Last.y /\ sp = Last.sp
        /\ memory = Last.memory
        /\ pc = (Last.pc + 1) % 65536

C8_Witness == Stepped /\ PreOpcode = 133 /\ Last.pc = 512 /\ pc = 513 /\ Last.sp = 255

(* C9: step() is defined from every state: it never indexes outside memory, *)
(* operands are fetched from (pc+1) mod 65536 and (pc+2) mod 65536, the     *)
(* indirect pointer's second byte from (operand+1) mod 65536, and pc, a,    *)
(* sp and every memory byte stay in range; a 2-byte instruction at 0xFFFF   *)
(* reads its operand at 0x0000 and ends with pc = 0x0001.                   *)
C9_Wraparound ==
    /\ ~aborted
    /\ pc \in 0 .. 65535
    /\ a \in 0 .. 255
    /\ sp \in 0 .. 255
    /\ DOMAIN memory \subseteq 0 .. 65535
    /\ \A i \in DOMAIN memory : memory[i] \in 0 .. 255
    /\ Stepped =>
        /\ PreOpcode = 169 => a = PreByte(1)
        /\ PreOpcode = 76  => pc = PreByte(1) + 256 * PreByte(2)
        /\ PreOpcode = 108 =>
             pc = Read(Last.memory, PreOperand16)
                    + 256 * Read(Last.memory, (PreOperand16 + 1) % 65536)
        /\ (Last.pc = 65535 /\ PreOpcode \in {230, 169, 165}) => pc = 1
        /\ (Last.pc = 65535 /\ PreOpcode = 169) => a = Read(Last.memory, 0)

C9_Witness ==
    Stepped /\ Last.pc = 65535 /\ PreOpcode = 169 /\ Read(Last.memory, 0) = 105
        /\ a = 105 /\ pc = 1

(* the address a store (0x85 / 0x8D) or a load (0xA5 / 0xAD) call e names *)
StoreAddr(e) ==
    IF Read(e.memory, e.pc) = 133
    THEN Read(e.memory, (e.pc + 1) % 65536)
    ELSE Read(e.memory, (e.pc + 1) % 65536) + 256 * Read(e.memory, (e.pc + 2) % 65536)

LoadAddr(e) ==
    IF Read(e.memory, e.pc) = 165
    THEN Read(e.memory, (e.pc + 1) % 65536)
    ELSE Read(e.memory, (e.pc + 1) % 65536) + 256 * Read(e.memory, (e.pc + 2) % 65536)

(* C10: a store of the accumulator holding v to address m (STA zero page    *)
(* 0x85 or absolute 0x8D), then a load of a different value into the        *)
(* accumulator, then a load (LDA zero page or absolute) from m yields       *)
(* a = v.                                                                   *)
C10_StoreLoadRoundTrip ==
    ( /\ Len(trace) >= 3
      /\ \A k \in 0 .. 2 : trace[Len(trace) - k].op = "step"
      /\ LET st == trace[Len(trace) - 2]
             ld == trace[Len(trace) - 1]
         IN  /\ Read(st.memory, st.pc) \in {133, 141}
             /\ Read(ld.memory, ld.pc) = 169
             /\ Read(ld.memory, (ld.pc + 1) % 65536) # st.a
             /\ PreOpcode \in {165, 173}
             /\ LoadAddr(Last) = StoreAddr(st) ) =>
        a = trace[Len(trace) - 2].a

-----------------------------------------------------------------------------
(* the addresses at which two memory contents differ *)
Changed(m1, m2) == {i \in (DOMAIN m1) \cup (DOMAIN m2) : Read(m1, i) # Read(m2, i)}

(* C11: one step() executing INC zero page (0xE6 z) sets memory[z] to       *)
(* (v + 1) mod 256, v being its prior value, changes no other memory byte   *)
(* and none of a, x, y, sp; the written address is in 0x0000..0x00FF.       *)
C11_IncZeroPage ==
    (Stepped /\ PreOpcode = 230) =>
        LET z == PreByte(1)
            v == Read(Last.memory, z)
        IN  /\ z \in 0 .. 255
            /\ Read(memory, z) = (v + 1) % 256
            /\ Changed(Last.memory, memory) \subseteq {z}
            /\ a = Last.a /\ x = Last.x /\ y = Last.y /\ sp = Last.sp

C11_Witness ==
    Stepped /\ PreOpcode = 230 /\ PreByte(1) = 255
        /\ Read(Last.memory, 255) = 255 /\ Read(memory, 255) = 0

(* C12: one step() executing PHA writes a to memory[0x0100 + sp], inside    *)
(* the stack page 0x0100..0x01FF, changes no other memory byte, leaves a    *)
(* unchanged and sets sp to (sp - 1) mod 256; with sp = 0x00 it writes      *)
(* address 0x0100 and sp becomes 0xFF.                                      *)
C12_Pha ==
    (Stepped /\ PreOpcode = 72) =>
        LET t == 256 + Last.sp
        IN  /\ ~aborted
            /\ t \in 256 .. 511
            /\ Read(memory, t) = Last.a
            /\ Changed(Last.memory, memory) \subseteq {t}
            /\ a = Last.a
            /\ sp = (Last.sp + 255) % 256
            /\ Last.sp = 0 => (Read(memory, 256) = Last.a /\ sp = 255)

C12_Witness ==
    Stepped /\ PreOpcode = 72 /\ Last.sp = 0 /\ Last.a = 105
        /\ Read(Last.memory, 256) = 0 /\ Read(memory, 256) = 105 /\ sp = 255

(* C13: one step() executing LDA leaves a equal to the addressed operand    *)
(* and all memory unchanged: immediate gives the byte at pc+1, zero page    *)
(* gives memory[byte at pc+1], absolute gives memory[byte at pc+1 + 256 *   *)
(* byte at pc+2].                                                           *)
C13_Lda ==
    Stepped =>
        /\ PreOpcode = 169 => a = PreByte(1)
        /\ PreOpcode = 165 => a = Read(Last.memory, PreByte(1))
        /\ PreOpcode = 173 => a = Read(Last.memory, PreByte(1) + 256 * PreByte(2))
        /\ PreOpcode \in {169, 165, 173} => memory = Last.memory

C13_Witness ==
    Stepped /\ PreOpcode = 173 /\ PreByte(1) = 169 /\ PreByte(2) = 2
        /\ Read(Last.memory, 681) = 255 /\ Read(Last.memory, 169) = 0 /\ a = 255

(* C14: one step() executing JMP absolute sets pc to byte(pc+1) + 256 *     *)
(* byte(pc+2); JMP indirect with a pointer whose low byte is not 0xFF sets  *)
(* pc to memory[pointer] + 256 * memory[pointer + 1]; in both cases a, x,   *)
(* y, sp and all memory are unchanged.                                      *)
C14_Jmp ==
    Stepped =>
        /\ PreOpcode = 76 => pc = PreByte(1) + 256 * PreByte(2)
        /\ (PreOpcode = 108 /\ PreByte(1) # 255) =>
              pc = Read(Last.memory, PreOperand16)
                     + 256 * Read(Last.memory, PreOperand16 + 1)
        /\ (PreOpcode = 76 \/ (PreOpcode = 108 /\ PreByte(1) # 255)) =>
              /\ a = Last.a /\ x = Last.x /\ y = Last.y /\ sp = Last.sp
              /\ memory = Last.memory

C14_Witness ==
    Stepped /\ PreOpcode = 108 /\ PreByte(1) = 252 /\ PreByte(2) = 255
        /\ Read(Last.memory, 65533) = 2 /\ pc = 512

-----------------------------------------------------------------------------
(* the step boundaries of the demo program *)
DemoPcs == {512, 514, 516, 518, 520, 521, 523, 768}

-----------------------------------------------------------------------------
(* C16: every step() changes at most one memory byte, and only at an        *)
(* address in 0x0000..0x01FF; so after any sequence of boot() and step()    *)
(* calls every byte at 0x0200..0xFFFF equals its value when the host        *)
(* loaded it.                                                               *)
C16_ImagePreserved ==
    /\ Stepped =>
        /\ Cardinality(Changed(Last.memory, memory)) <= 1
        /\ Changed(Last.memory, memory) \subseteq 0 .. 511
    /\ Changed(image, memory) \subseteq 0 .. 511

C16_Witness ==
    /\ Stepped /\ Changed(Last.memory, memory) = {511}
    /\ Changed(image, memory) = {511}
    /\ Read(image, 512) = 169 /\ Read(memory, 511) = 105

(* C17: in every state reachable from new() by boot() and step() calls the  *)
(* flags register is 0, so the unused flag bit keeps one constant value;    *)
(* x and y are never changed by boot() or step().                           *)
C17_FlagsZero ==
    /\ flags = 0
    /\ Bit(flags, 5) = 0
    /\ Called => (x = Last.x /\ y = Last.y)
    /\ x = 0 /\ y = 0

C17_Witness ==
    /\ Len(trace) >= 2 /\ Before.op = "boot" /\ Stepped
    /\ PreOpcode = 169 /\ PreByte(1) = 0 /\ a = 0 /\ flags = 0

====
